---- MODULE Spec2Model ----
(***************************************************************************)
(* Model of packages/vitest/src/typescript/parser.ts: the Typechecker      *)
(* session (start, the stdout data handler, collectTests, prepareResults)  *)
(* and the result builder that turns type-checker diagnostics into         *)
(* synthetic tasks attached to the collected suites of a file.             *)
(***************************************************************************)
EXTENDS Integers, Sequences, FiniteSets, TLC

VARIABLES
  watch,           \* ctx.config.watch
  files,           \* this.files, the requested test files (absolute paths)
  store,           \* heap of Record<string, FileInformation> objects, one per collection
  _tests,          \* this._tests: Null or an index into store
  colls,           \* collectTests() calls whose Promise.all has not settled yet
  snaps,           \* heap of ErrorsCache objects
  _result,         \* this._result: an index into snaps
  output,          \* the local `output` buffer of start()
  rerunTriggered,  \* the local `rerunTriggered` flag of start()
  runs,            \* prepareResults() invocations, one record per call
  cur,             \* the synchronous section that is executing right now
  spc,             \* where start() stands
  proc,            \* the spawned checker process
  hist             \* observation log: callback invocations and pass boundaries

vars == <<watch, files, store, _tests, colls, snaps, _result, output,
          rerunTriggered, runs, cur, spc, proc, hist>>

----------------------------------------------------------------------------
(* Bounds of the model *)

MaxChunks == 2      \* stdout chunks delivered in one behaviour
MaxColls == 1       \* collectTests() calls made from outside the class
MaxErrs == 2        \* diagnostics of one file in the builder specification
MaxOffset == 3      \* greatest offset of a definition span in the builder specification

----------------------------------------------------------------------------
(* Values *)

Null == 0                       \* JS null/undefined where an index is expected
Undefined == 0 - 1              \* a line or column the diagnostic does not carry
NullNum == 0 - 2                \* a line or column the source map lookup left null

Root == "/r"
Modes == {"run", "only", "skip", "todo"}
Running == {"run", "only"}
NoMap == <<>>                   \* FileInformation.map is absent; <<m>> when present
NoResult == "collected"         \* the result a node got from the collector

\* pathe's resolve(root, path) for a relative path
resolve(root, path) == root \o "/" \o path

Pos(l, c) == [line |-> l, column |-> c]

\* the template literal `${line}:${column}`
NumStr(n) == IF n = Undefined THEN "undefined"
             ELSE IF n = NullNum THEN "null" ELSE ToString(n)
KeyOf(pos) == NumStr(pos.line) \o ":" \o NumStr(pos.column)

Range(s) == {s[i] : i \in 1..Len(s)}

RECURSIVE SumTo(_, _)
SumTo(text, l) == IF l = 0 THEN 0 ELSE text[l] + SumTo(text, l - 1)

\* createIndexMap(parsed): every line:column of the text, keyed as a string,
\* to its character offset.  The text is given by the lengths of its lines.
TextPositions(text) ==
  UNION {{<<l, c>> : c \in 1..text[l]} : l \in 1..Len(text)}
createIndexMap(text) ==
  [k \in {KeyOf(Pos(p[1], p[2])) : p \in TextPositions(text)} |->
     LET p == CHOOSE q \in TextPositions(text) : KeyOf(Pos(q[1], q[2])) = k
     IN SumTo(text, p[1] - 1) + p[2] - 1]

\* SourceMapConsumer.generatedPositionFor: the mapped position, or an object
\* whose line and column are null when the map has nothing for the position
generatedPositionFor(map, pos) ==
  IF pos \in DOMAIN map THEN map[pos] ELSE Pos(NullNum, NullNum)

----------------------------------------------------------------------------
(* The result builder: lines 84-127 of prepareResults *)

\* definitions.sort((a, b) => b.start - a.start): stable, descending start
RECURSIVE InsertDesc(_, _)
InsertDesc(d, s) ==
  IF s = <<>> THEN <<d>>
  ELSE IF Head(s).start >= d.start THEN <<Head(s)>> \o InsertDesc(d, Tail(s))
  ELSE <<d>> \o s

RECURSIVE SortDescFrom(_, _)
SortDescFrom(defs, acc) ==
  IF defs = <<>> THEN acc ELSE SortDescFrom(Tail(defs), InsertDesc(Head(defs), acc))

\* mutant: the comparator a.start - b.start, ascending
RECURSIVE InsertAsc(_, _)
InsertAsc(d, s) ==
  IF s = <<>> THEN <<d>>
  ELSE IF Head(s).start <= d.start THEN <<Head(s)>> \o InsertAsc(d, Tail(s))
  ELSE <<d>> \o s
RECURSIVE SortAscFrom(_, _)
SortAscFrom(defs, acc) ==
  IF defs = <<>> THEN acc ELSE SortAscFrom(Tail(defs), InsertAsc(Head(defs), acc))
sortDefinitionsAscending(defs) == SortAscFrom(defs, <<>>)

sortDefinitions(defs) == SortDescFrom(defs, <<>>)

\* sortedDefinitions.find(def => def.start <= index && def.end >= index) || file
RECURSIVE findDefinition(_, _)
findDefinition(sorted, index) ==
  IF sorted = <<>> THEN 0
  ELSE IF Head(sorted).start <= index /\ Head(sorted).end >= index
       THEN Head(sorted).task
       ELSE findDefinition(Tail(sorted), index)

\* mapConsumer?.generatedPositionFor({...}) || originalError
translatePosition(map, originalError) ==
  IF map = NoMap THEN originalError
  ELSE generatedPositionFor(map[1], Pos(originalError.line, originalError.column))

\* lines 107-109: the suite (a node of the file; 0 is the file) owning a position
locateSuite(fi, sorted, originalPos) ==
  LET indexMap == createIndexMap(fi.parsed)
      key == KeyOf(originalPos)
  IN IF key \in DOMAIN indexMap THEN findDefinition(sorted, indexMap[key]) ELSE 0

\* mutant: every mode counts as failed
stateOfModeAlwaysFail(mode) == "fail"

\* the state a node gets from its mode (lines 96 and 110)
stateOfMode(mode) == IF mode \in Running THEN "fail" ELSE mode

\* mutant: only the suite itself is marked, its ancestors are left alone
markFailedNotRecursing(fi, n) ==
  [fi EXCEPT !.state[n] = IF fi.mode[n] \in Running THEN "fail" ELSE fi.mode[n]]

\* mutant: a node that is already failed is given its mode back
RECURSIVE markFailedFlipping(_, _)
markFailedFlipping(fi, n) ==
  LET marked == [fi EXCEPT !.state[n] = IF fi.state[n] = "fail" THEN fi.mode[n]
                                        ELSE stateOfMode(fi.mode[n])]
  IN IF n # 0 THEN markFailedFlipping(marked, fi.suite[n]) ELSE marked

\* markFailed (lines 94-100); the file is the one node without a suite
RECURSIVE markFailed(_, _)
markFailed(fi, n) ==
  LET marked == [fi EXCEPT !.state[n] = stateOfMode(fi.mode[n])]
  IN IF n # 0 THEN markFailed(marked, fi.suite[n]) ELSE marked

\* the task built at lines 111-122
makeTask(fi, suite, entry, idx) ==
  LET state == stateOfMode(fi.mode[suite])
  IN [type |-> "typecheck", id |-> idx, name |-> idx + 1, mode |-> fi.mode[suite],
      suite |-> suite, state |-> state, diag |-> entry.error.uid,
      error |-> IF state = "fail" THEN <<entry.error>> ELSE <<>>]

\* mutant: the owner's tasks are replaced by the new task, not extended
errorsForEachBodyReplacing(fi, sorted, entry, idx) ==
  LET originalPos == translatePosition(fi.map, entry.originalError)
      suite == locateSuite(fi, sorted, originalPos)
      task == makeTask(fi, suite, entry, idx)
      marked == IF task.state = "fail" THEN markFailed(fi, suite) ELSE fi
  IN [marked EXCEPT !.tasks[suite] = <<task>>]

\* one iteration of errors.forEach (lines 101-126); idx is zero-based
errorsForEachBody(fi, sorted, entry, idx) ==
  LET originalPos == translatePosition(fi.map, entry.originalError)
      suite == locateSuite(fi, sorted, originalPos)
      task == makeTask(fi, suite, entry, idx)
      marked == IF task.state = "fail" THEN markFailed(fi, suite) ELSE fi
  IN [marked EXCEPT !.tasks[suite] = Append(@, task)]

----------------------------------------------------------------------------
(* The checker's output and its parsing: lines 140-169 *)

\* the output buffer is a sequence of tokens: a diagnostic line, one of the
\* two watch-mode notices, or text that is no diagnostic
Diag(p, l, c) == [kind |-> "diag", path |-> p, line |-> l, column |-> c, uid |-> 0]
Rerun == [kind |-> "rerun", path |-> "", line |-> Undefined, column |-> Undefined, uid |-> 0]
Done == [kind |-> "done", path |-> "", line |-> Undefined, column |-> Undefined, uid |-> 0]
Text == [kind |-> "text", path |-> "", line |-> Undefined, column |-> Undefined, uid |-> 0]

\* output.includes('File change detected')
includesRerun(out) == \E i \in 1..Len(out) : out[i].kind = "rerun"
\* /Found \w+ errors*. Watching for/.test(output)
testDone(out) == \E i \in 1..Len(out) : out[i].kind = "done"

\* a Map<string, V> as the sequence of its entries in insertion order
MapHas(m, k) == \E i \in 1..Len(m) : m[i].key = k
MapGet(m, k) == m[CHOOSE i \in 1..Len(m) : m[i].key = k].value
MapSet(m, k, v) ==
  IF MapHas(m, k)
  THEN [i \in 1..Len(m) |-> IF m[i].key = k THEN [key |-> k, value |-> v] ELSE m[i]]
  ELSE Append(m, [key |-> k, value |-> v])

\* getRawErrsMapFromTsCompile: the diagnostics of the output grouped by the
\* path the tool wrote, in emission order; other lines are skipped
RECURSIVE getRawErrsMapFromTsCompile(_, _)
getRawErrsMapFromTsCompile(out, acc) ==
  IF out = <<>> THEN acc
  ELSE LET t == Head(out)
           info == [line |-> t.line, column |-> t.column, errMsg |-> "TS", uid |-> t.uid]
           old == IF MapHas(acc, t.path) THEN MapGet(acc, t.path) ELSE <<>>
       IN getRawErrsMapFromTsCompile(Tail(out),
            IF t.kind = "diag" THEN MapSet(acc, t.path, Append(old, info)) ELSE acc)

\* new TypeCheckError(info.errMsg, [{file, line, column, ...}]) with its source info
suiteError(filepath, info) ==
  [error |-> [message |-> info.errMsg, file |-> filepath, line |-> info.line,
              column |-> info.column, uid |-> info.uid],
   originalError |-> info]

RECURSIVE resolveErrors(_, _)
resolveErrors(errorsMap, acc) ==
  IF errorsMap = <<>> THEN acc
  ELSE LET e == Head(errorsMap)
           filepath == resolve(Root, e.key)
           suiteErrors == [i \in 1..Len(e.value) |-> suiteError(filepath, e.value[i])]
       IN resolveErrors(Tail(errorsMap), MapSet(acc, filepath, suiteErrors))

parseTscLikeOutput(out) == resolveErrors(getRawErrsMapFromTsCompile(out, <<>>), <<>>)

\* mutant: the errors of every file, under test or not
RECURSIVE collectSourceErrorsOfAll(_, _)
collectSourceErrorsOfAll(typeErrors, testFiles) ==
  IF typeErrors = <<>> THEN <<>>
  ELSE [i \in 1..Len(Head(typeErrors).value) |-> Head(typeErrors).value[i].error]
       \o collectSourceErrorsOfAll(Tail(typeErrors), testFiles)

\* lines 129-132: the errors of the files that are not under test
RECURSIVE collectSourceErrors(_, _)
collectSourceErrors(typeErrors, testFiles) ==
  IF typeErrors = <<>> THEN <<>>
  ELSE LET e == Head(typeErrors)
           errs == IF e.key \in testFiles THEN <<>>
                   ELSE [i \in 1..Len(e.value) |-> e.value[i].error]
       IN errs \o collectSourceErrors(Tail(typeErrors), testFiles)

\* mutant: this.files as it is, a file requested twice kept twice
setOrderKeepingDuplicates(fs, acc) == acc \o fs

\* new Set(this.files), in iteration (first insertion) order
RECURSIVE setOrder(_, _)
setOrder(fs, acc) ==
  IF fs = <<>> THEN acc
  ELSE setOrder(Tail(fs), IF Head(fs) \in Range(acc) THEN acc ELSE Append(acc, Head(fs)))

----------------------------------------------------------------------------
(* The collected test definitions: what collectFileTests hands back *)

A == resolve(Root, "a.ts")
B == resolve(Root, "b.ts")

Def(s, e, t) == [start |-> s, end |-> e, task |-> t]

\* a file with suite 1 at the top level and suite 2 under `parent2`
FileInfo(path, parent2, modes, defs, map) ==
  [filepath |-> path,
   suite |-> <<0, parent2>>,
   mode |-> modes,
   definitions |-> defs,
   map |-> map,
   parsed |-> <<2, 2>>,
   state |-> [n \in 0..2 |-> NoResult],
   tasks |-> [n \in 0..2 |-> <<>>]]

ModesOf(m0, m1, m2) == [n \in 0..2 |-> IF n = 0 THEN m0 ELSE IF n = 1 THEN m1 ELSE m2]

NestedDefs == <<Def(0, 3, 1), Def(1, 2, 2)>>

\* what one collectFileTests(filepath) call resolves to in the session model
\* (for every requested file at once): every file with running suites, every
\* file with its inner suite skipped, or nothing collected for file B
CollectMenu == {"run", "skip", "nullB"}
Collected(path, pick) ==
  FileInfo(path, 1, ModesOf("run", "run", IF pick = "skip" THEN "skip" ELSE "run"),
           NestedDefs, NoMap)
CollectedPaths(pick) == {p \in Range(files) : ~(pick = "nullB" /\ p = B)}

----------------------------------------------------------------------------
(* State *)

IdleCur == [kind |-> "idle", run |-> 0, gen |-> 0, todo |-> <<>>, path |-> "",
            errs |-> <<>>, idx |-> 0, sorted |-> <<>>, outFiles |-> <<>>]
Idle == cur.kind = "idle"

EmptyCache == [files |-> <<>>, sourceErrors |-> <<>>]

InitHist == [chunks |-> 0, tokens |-> 0, extColls |-> 0, colls |-> 0,
             rerunCalls |-> 0, markedPasses |-> 0, segMarked |-> FALSE,
             passes |-> 0, sincePass |-> <<>>, parseStart |-> 0,
             parseEnd |-> <<>>, endPending |-> {}]

FileLists == {<<B, A>>, <<A, B, A>>}

Init ==
  /\ watch \in BOOLEAN
  /\ files \in FileLists
  /\ store = <<[data |-> <<>>, epoch |-> 0]>>
  /\ _tests = 1
  /\ colls = {}
  /\ snaps = <<EmptyCache>>
  /\ _result = 1
  /\ output = <<>>
  /\ rerunTriggered = FALSE
  /\ runs = <<>>
  /\ cur = IdleCur
  /\ spc = "idle"
  /\ proc = [spawned |-> FALSE, listening |-> FALSE, exited |-> FALSE]
  /\ hist = InitHist

\* getResult()
getResult == snaps[_result]

\* getTestFiles(): the collected files, each without its result
getTestFiles ==
  IF _tests = Null THEN <<>>
  ELSE LET data == store[_tests].data
           order == SelectSeq(setOrder(files, <<>>), LAMBDA p : p \in DOMAIN data)
       IN [i \in 1..Len(order) |-> [filepath |-> order[i], result |-> "undefined"]]

----------------------------------------------------------------------------
(* collectTests: lines 59-70 *)

NewColl(owner) == [id |-> hist.colls + 1, owner |-> owner, epoch |-> hist.rerunCalls]

\* the section of prepareResults that runs once `tests` is known (line 81)
BeginBuild(r, g) ==
  [IdleCur EXCEPT !.kind = "file", !.run = r, !.gen = g,
                  !.todo = setOrder(files, <<>>)]

\* Promise.all settles: the reduce of lines 62-67 and this._tests = tests
collectEffect(pick, epoch) ==
  LET data == [p \in CollectedPaths(pick) |-> Collected(p, pick)]
  IN /\ store' = Append(store, [data |-> data, epoch |-> epoch])
     /\ _tests' = Len(store) + 1

\* a caller (the test runner, or one of its callbacks) called collectTests()
\* and the call settles; nothing of the session changes before it does
ExtCollectTests(pick) ==
  /\ Idle
  /\ hist.extColls < MaxColls
  /\ collectEffect(pick, hist.rerunCalls)
  /\ hist' = [hist EXCEPT !.extColls = @ + 1]
  /\ UNCHANGED <<watch, files, colls, snaps, _result, output,
                 rerunTriggered, runs, cur, spc, proc>>

\* the collectTests() call that prepareResults awaits (line 79) settles, and
\* prepareResults goes on with the tests it returned
CollectSettles(c, pick) ==
  /\ Idle
  /\ c \in colls
  /\ colls' = colls \ {c}
  /\ collectEffect(pick, c.epoch)
  /\ runs' = [runs EXCEPT ![c.owner].pc = "build", ![c.owner].tests = Len(store) + 1]
  /\ cur' = BeginBuild(c.owner, Len(store) + 1)
  /\ UNCHANGED <<watch, files, snaps, _result, output, rerunTriggered,
                 spc, proc, hist>>

----------------------------------------------------------------------------
(* prepareResults: lines 72-138 *)

NewRun(out) == [pc |-> "parse", output |-> out, typeErrors |-> <<>>, tests |-> Null,
                snap |-> Null, pass |-> hist.passes + 1, rerun |-> hist.rerunCalls]

\* await parseTscLikeOutput settles; lines 74-79
RunParsed(r) ==
  /\ Idle
  /\ r \in 1..Len(runs)
  /\ runs[r].pc = "parse"
  /\ LET typeErrors == parseTscLikeOutput(runs[r].output)
     IN IF _tests = Null
        THEN /\ runs' = [runs EXCEPT ![r].pc = "collect", ![r].typeErrors = typeErrors]
             /\ colls' = colls \cup {NewColl(r)}
             /\ hist' = [hist EXCEPT !.colls = @ + 1]
             /\ UNCHANGED cur
        ELSE /\ runs' = [runs EXCEPT ![r].pc = "build", ![r].typeErrors = typeErrors,
                                     ![r].tests = _tests]
             /\ cur' = BeginBuild(r, _tests)
             /\ UNCHANGED <<colls, hist>>
  /\ UNCHANGED <<watch, files, store, _tests, snaps, _result, output,
                 rerunTriggered, spc, proc>>

\* the start of one testFiles.forEach iteration: lines 85-93.  Destructuring
\* tests[path] throws when the collection has no entry for the path.
FileStep ==
  /\ cur.kind = "file"
  /\ cur.todo # <<>>
  /\ LET path == Head(cur.todo)
         data == store[cur.gen].data
         typeErrors == runs[cur.run].typeErrors
     IN IF path \notin DOMAIN data
        THEN /\ runs' = [runs EXCEPT ![cur.run].pc = "threw"]
             /\ cur' = IdleCur
             /\ spc' = IF watch THEN spc ELSE "rejected"
             /\ UNCHANGED store
        ELSE IF ~MapHas(typeErrors, path)
        THEN /\ cur' = [cur EXCEPT !.todo = Tail(@), !.outFiles = Append(@, <<cur.gen, path>>)]
             /\ UNCHANGED <<store, runs, spc>>
        ELSE LET sorted == sortDefinitions(data[path].definitions)
             IN /\ store' = [store EXCEPT ![cur.gen].data[path].definitions = sorted]
                /\ cur' = [cur EXCEPT !.kind = "errors", !.path = path,
                                      !.outFiles = Append(@, <<cur.gen, path>>),
                                      !.errs = MapGet(typeErrors, path), !.idx = 0,
                                      !.sorted = sorted]
                /\ UNCHANGED <<runs, spc>>
  /\ UNCHANGED <<watch, files, _tests, colls, snaps, _result, output,
                 rerunTriggered, proc, hist>>

\* one iteration of errors.forEach: lines 101-126
ErrorStep ==
  /\ cur.kind = "errors"
  /\ LET fi == store[cur.gen].data[cur.path]
         last == cur.idx + 1 = Len(cur.errs)
     IN /\ store' = [store EXCEPT ![cur.gen].data[cur.path] =
                       errorsForEachBody(fi, cur.sorted, cur.errs[cur.idx + 1], cur.idx)]
        /\ cur' = IF last
                  THEN [cur EXCEPT !.kind = "file", !.todo = Tail(@), !.path = "",
                                   !.errs = <<>>, !.idx = 0, !.sorted = <<>>]
                  ELSE [cur EXCEPT !.idx = @ + 1]
  /\ UNCHANGED <<watch, files, _tests, colls, snaps, _result, output,
                 rerunTriggered, runs, spc, proc, hist>>

\* lines 129-137: the source errors, and the ErrorsCache that is returned
ReturnStep ==
  /\ cur.kind = "file"
  /\ cur.todo = <<>>
  /\ snaps' = Append(snaps,
       [files |-> cur.outFiles,
        sourceErrors |-> collectSourceErrors(runs[cur.run].typeErrors, Range(files))])
  /\ runs' = [runs EXCEPT ![cur.run].pc = "returned", ![cur.run].snap = Len(snaps) + 1]
  /\ cur' = [cur EXCEPT !.kind = "publish"]
  /\ UNCHANGED <<watch, files, store, _tests, colls, _result, output,
                 rerunTriggered, spc, proc, hist>>

\* this._result = result (line 211, line 219)
PublishStep ==
  /\ cur.kind = "publish"
  /\ _result' = runs[cur.run].snap
  /\ cur' = [cur EXCEPT !.kind = "parseEnd"]
  /\ UNCHANGED <<watch, files, store, _tests, colls, snaps, output,
                 rerunTriggered, runs, spc, proc, hist>>

\* this._onParseEnd?.(result) (line 212, line 220); the callback returns a
\* promise, which only start() awaits
ParseEndStep ==
  /\ cur.kind = "parseEnd"
  /\ hist' = [hist EXCEPT !.parseEnd =
                Append(@, [run |-> cur.run, snap |-> runs[cur.run].snap,
                           current |-> _result]),
                          !.endPending = @ \cup {cur.run}]
  /\ runs' = [runs EXCEPT ![cur.run].pc = "published"]
  /\ cur' = IdleCur
  /\ spc' = IF watch THEN spc ELSE "awaitParseEnd"
  /\ UNCHANGED <<watch, files, store, _tests, colls, snaps, _result, output,
                 rerunTriggered, proc>>

----------------------------------------------------------------------------
(* start: lines 177-222 *)

CallStart ==
  /\ Idle
  /\ spc = "idle"
  /\ spc' = "ensure"
  /\ UNCHANGED <<watch, files, store, _tests, colls, snaps, _result, output,
                 rerunTriggered, runs, cur, proc, hist>>

\* await ensurePackageInstalled(...) settles (line 180)
EnsureSettles(ok) ==
  /\ Idle
  /\ spc = "ensure"
  /\ spc' = IF ok THEN "config" ELSE "rejected"
  /\ UNCHANGED <<watch, files, store, _tests, colls, snaps, _result, output,
                 rerunTriggered, runs, cur, proc, hist>>

\* await getTsconfigPath(...) settles (line 182); lines 183-195 spawn the
\* checker and call the parse-start callback
ConfigSettles(ok) ==
  /\ Idle
  /\ spc = "config"
  /\ IF ok
     THEN /\ spc' = "parseStart"
          /\ proc' = [proc EXCEPT !.spawned = TRUE]
          /\ output' = <<>>
          /\ hist' = [hist EXCEPT !.parseStart = @ + 1]
     ELSE /\ spc' = "rejected"
          /\ UNCHANGED <<proc, output, hist>>
  /\ UNCHANGED <<watch, files, store, _tests, colls, snaps, _result,
                 rerunTriggered, runs, cur>>

\* await this._onParseStart?.() settles; lines 196-217: the data handler is
\* installed, and with `watch` set the function is at its end
ParseStartSettles ==
  /\ Idle
  /\ spc = "parseStart"
  /\ rerunTriggered' = FALSE
  /\ proc' = [proc EXCEPT !.listening = TRUE]
  /\ spc' = IF watch THEN "resolved" ELSE "awaitExit"
  /\ UNCHANGED <<watch, files, store, _tests, colls, snaps, _result, output,
                 runs, cur, hist>>

Stamp(chunk, base) == [i \in 1..Len(chunk) |-> [chunk[i] EXCEPT !.uid = base + i]]

\* the passes of the stream that carry a rerun notice, counted in stream order
RECURSIVE MarkPasses(_, _)
MarkPasses(chunk, acc) ==
  IF chunk = <<>> THEN acc
  ELSE LET t == Head(chunk)
       IN MarkPasses(Tail(chunk),
            IF t.kind = "rerun" /\ ~acc.seg THEN [n |-> acc.n + 1, seg |-> TRUE]
            ELSE IF t.kind = "done" THEN [acc EXCEPT !.seg = FALSE]
            ELSE acc)

ChunkMenu ==
  { <<Rerun>>, <<Done>>, <<Done, Rerun>>,
    <<Diag("a.ts", 1, 2), Done>>,
    <<Diag("a.ts", Undefined, Undefined), Text, Diag("b.ts", 1, 1)>>,
    <<Rerun, Diag("a.ts", 1, 1), Diag("x.ts", 2, 1), Diag("a.ts", 1, 2), Done>> }

\* the 'data' handler, lines 198-200
OnData(chunk) ==
  /\ Idle
  /\ proc.listening
  /\ ~proc.exited
  /\ hist.chunks < MaxChunks
  /\ LET stamped == Stamp(chunk, hist.tokens)
         marks == MarkPasses(chunk, [n |-> hist.markedPasses, seg |-> hist.segMarked])
     IN /\ output' = output \o stamped
        /\ hist' = [hist EXCEPT !.chunks = @ + 1, !.tokens = @ + Len(chunk),
                                !.sincePass = @ \o stamped,
                                !.markedPasses = marks.n, !.segMarked = marks.seg]
  /\ cur' = IF watch THEN [IdleCur EXCEPT !.kind = "rerunCheck"] ELSE IdleCur
  /\ UNCHANGED <<watch, files, store, _tests, colls, snaps, _result,
                 rerunTriggered, runs, spc, proc>>

rerunFires == includesRerun(output) /\ ~rerunTriggered

\* mutant: the cached test definitions are kept
rerunEffectKeepingTests ==
  /\ hist' = [hist EXCEPT !.rerunCalls = @ + 1]
  /\ snaps' = [snaps EXCEPT ![_result] = EmptyCache]
  /\ _tests' = _tests
  /\ rerunTriggered' = TRUE

\* lines 202-206
rerunEffect ==
  /\ hist' = [hist EXCEPT !.rerunCalls = @ + 1]
  /\ snaps' = [snaps EXCEPT ![_result] = EmptyCache]
  /\ _tests' = Null
  /\ rerunTriggered' = TRUE

\* the 'data' handler, lines 201-207
RerunBranch ==
  /\ cur.kind = "rerunCheck"
  /\ IF rerunFires
     THEN rerunEffect
     ELSE UNCHANGED <<hist, snaps, _tests, rerunTriggered>>
  /\ cur' = [cur EXCEPT !.kind = "doneCheck"]
  /\ UNCHANGED <<watch, files, store, colls, _result, output, runs, spc, proc>>

doneFires == testDone(output)

\* mutant: the buffer is not emptied
doneEffectKeepingOutput ==
  /\ rerunTriggered' = FALSE
  /\ runs' = Append(runs, NewRun(output))
  /\ output' = output
  /\ hist' = [hist EXCEPT !.passes = @ + 1, !.sincePass = <<>>]

\* lines 209-214; prepareResults runs up to its first await
doneEffect ==
  /\ rerunTriggered' = FALSE
  /\ runs' = Append(runs, NewRun(output))
  /\ output' = <<>>
  /\ hist' = [hist EXCEPT !.passes = @ + 1, !.sincePass = <<>>]

\* the 'data' handler, lines 208-215
DoneBranch ==
  /\ cur.kind = "doneCheck"
  /\ IF doneFires
     THEN doneEffect
     ELSE UNCHANGED <<rerunTriggered, runs, output, hist>>
  /\ cur' = IdleCur
  /\ UNCHANGED <<watch, files, store, _tests, colls, snaps, _result, spc, proc>>

\* mutant: start() does not wait for prepareResults and the callback
ProcExitNotAwaiting ==
  /\ Idle
  /\ spc = "awaitExit"
  /\ ~proc.exited
  /\ proc' = [proc EXCEPT !.exited = TRUE]
  /\ runs' = Append(runs, NewRun(output))
  /\ hist' = [hist EXCEPT !.passes = @ + 1]
  /\ spc' = "resolved"
  /\ UNCHANGED <<watch, files, store, _tests, colls, snaps, _result, output,
                 rerunTriggered, cur>>

\* the checker exits and `await stdout` settles; line 219 calls prepareResults
ProcExit ==
  /\ Idle
  /\ spc = "awaitExit"
  /\ ~proc.exited
  /\ proc' = [proc EXCEPT !.exited = TRUE]
  /\ runs' = Append(runs, NewRun(output))
  /\ hist' = [hist EXCEPT !.passes = @ + 1]
  /\ spc' = "awaitPrepare"
  /\ UNCHANGED <<watch, files, store, _tests, colls, snaps, _result, output,
                 rerunTriggered, cur>>

\* the promise of the parse-end callback settles and start() returns (line 220)
ParseEndSettles ==
  /\ Idle
  /\ spc = "awaitParseEnd"
  /\ spc' = "resolved"
  /\ hist' = [hist EXCEPT !.endPending = {}]
  /\ UNCHANGED <<watch, files, store, _tests, colls, snaps, _result, output,
                 rerunTriggered, runs, cur, proc>>

\* in watch mode the promise the parse-end callback returned at line 212
\* settles; nothing of the session waits for it
WatchParseEndSettles(r) ==
  /\ Idle
  /\ watch
  /\ r \in hist.endPending
  /\ hist' = [hist EXCEPT !.endPending = @ \ {r}]
  /\ UNCHANGED <<watch, files, store, _tests, colls, snaps, _result, output,
                 rerunTriggered, runs, cur, spc, proc>>

----------------------------------------------------------------------------
(* The session *)

BuildNext == FileStep \/ ErrorStep \/ ReturnStep

Next ==
  \/ \E pick \in CollectMenu : ExtCollectTests(pick)
  \/ \E c \in colls : \E pick \in CollectMenu : CollectSettles(c, pick)
  \/ \E r \in 1..Len(runs) : RunParsed(r)
  \/ BuildNext
  \/ PublishStep
  \/ ParseEndStep
  \/ CallStart
  \/ \E ok \in BOOLEAN : EnsureSettles(ok)
  \/ \E ok \in BOOLEAN : ConfigSettles(ok)
  \/ ParseStartSettles
  \/ \E chunk \in ChunkMenu : OnData(chunk)
  \/ RerunBranch
  \/ DoneBranch
  \/ ProcExit
  \/ ParseEndSettles
  \/ \E r \in 1..Len(runs) : WatchParseEndSettles(r)

Spec == Init /\ [][Next]_vars

----------------------------------------------------------------------------
(* The builder alone: prepareResults at line 81, over one file whose        *)
(* definitions, modes, source map and diagnostics are drawn from bounded    *)
(* sets                                                                     *)

Map1 == [p \in {Pos(1, 1), Pos(2, 1)} |-> IF p = Pos(1, 1) THEN Pos(2, 1) ELSE Pos(1, 2)]

SpanSet(t) ==
  {d \in {Def(s, e, t) : s \in 0..MaxOffset, e \in 0..MaxOffset} : d.start <= d.end}

LocatePositions == {Pos(1, 1), Pos(1, 2), Pos(2, 1), Pos(2, 2), Pos(3, 1),
                    Pos(Undefined, Undefined)}
ModePositions == {Pos(1, 1), Pos(1, 2), Pos(Undefined, Undefined)}

DiagsAt(ps) == [i \in 1..Len(ps) |-> Diag("a.ts", ps[i].line, ps[i].column)]

SeqsUpTo(S, n) == UNION {[1..k -> S] : k \in 1..n}

BuildState(fi, out) ==
  /\ watch = FALSE
  /\ files = <<A>>
  /\ store = <<[data |-> <<>>, epoch |-> 0], [data |-> [p \in {A} |-> fi], epoch |-> 0]>>
  /\ _tests = 2
  /\ colls = {}
  /\ snaps = <<EmptyCache>>
  /\ _result = 1
  /\ output = out
  /\ rerunTriggered = FALSE
  /\ runs = <<[pc |-> "build", output |-> out, typeErrors |-> parseTscLikeOutput(out),
               tests |-> 2, snap |-> Null, pass |-> 1, rerun |-> 0]>>
  /\ cur = BeginBuild(1, 2)
  /\ spc = "awaitPrepare"
  /\ proc = [spawned |-> TRUE, listening |-> TRUE, exited |-> TRUE]
  /\ hist = [InitHist EXCEPT !.passes = 1, !.tokens = Len(out), !.chunks = 1]

\* any two spans in any order, with or without a source map, one diagnostic
InitLocate ==
  \E d1 \in SpanSet(1), d2 \in SpanSet(2), map \in {NoMap, <<Map1>>},
     pos \in LocatePositions :
    BuildState(FileInfo(A, 1, ModesOf("run", "run", "run"), <<d1, d2>>, map),
               Stamp(DiagsAt(<<pos>>), 0))

\* any modes on a chain or on two sibling suites, up to MaxErrs diagnostics
InitModes ==
  \E parent2 \in {0, 1}, modes \in [0..2 -> Modes],
     ps \in SeqsUpTo(ModePositions, MaxErrs) :
    BuildState(FileInfo(A, parent2, modes, NestedDefs, NoMap),
               Stamp(DiagsAt(ps), 0))

InitBuild == InitLocate \/ InitModes

SpecBuild == InitBuild /\ [][BuildNext]_vars

----------------------------------------------------------------------------
(* Vocabulary of the properties *)

Nodes == 0..2

\* every FileInformation object of the heap, as <<collection, path>>
FileRefs == UNION {{<<g, p>> : p \in DOMAIN store[g].data} : g \in 1..Len(store)}
FileAt(ref) == store[ref[1]].data[ref[2]]

\* the synthetic tasks of a file, as <<owner, position in owner.tasks>>
Slots(fi) == UNION {{<<n, j>> : j \in 1..Len(fi.tasks[n])} : n \in Nodes}
TaskAt(fi, slot) == fi.tasks[slot[1]][slot[2]]

\* the parsed diagnostics of a run, and of every run
EntriesOf(typeErrors) == UNION {Range(typeErrors[i].value) : i \in 1..Len(typeErrors)}
AllEntries == UNION {EntriesOf(runs[r].typeErrors) : r \in 1..Len(runs)}
EntryByUid(uid) == CHOOSE e \in AllEntries : e.error.uid = uid

\* the strict ancestors of a suite, up to the file
RECURSIVE Ancestors(_, _)
Ancestors(fi, n) == IF n = 0 THEN {} ELSE {fi.suite[n]} \cup Ancestors(fi, fi.suite[n])

Returned(r) == runs[r].pc = "returned"

FirstIndex(seq, x) == CHOOSE i \in 1..Len(seq) : seq[i] = x /\ \A j \in 1..(i - 1) : seq[j] # x

----------------------------------------------------------------------------
(* C1 *)

\* C1: when prepareResults has returned, the `files` of its snapshot hold
\* exactly one record per requested file, the record collected for that file,
\* in the order of the request, whether or not the file has diagnostics.
C1_FilesAreTheRequestedFiles ==
  \A r \in 1..Len(runs) : Returned(r) =>
    LET fs == snaps[runs[r].snap].files
    IN /\ \A p \in Range(files) : Cardinality({i \in 1..Len(fs) : fs[i][2] = p}) = 1
       /\ \A i \in 1..Len(fs) :
            /\ fs[i][2] \in Range(files)
            /\ fs[i][1] = runs[r].tests
            /\ FileAt(fs[i]).filepath = fs[i][2]
       /\ \A i, j \in 1..Len(fs) :
            i < j => FirstIndex(files, fs[i][2]) < FirstIndex(files, fs[j][2])

\* a run has returned two records, the first requested twice, while one of
\* the files has no diagnostic at all
C1_Witness ==
  \E r \in 1..Len(runs) :
    /\ Returned(r)
    /\ files = <<A, B, A>>
    /\ Len(snaps[runs[r].snap].files) = 2
    /\ MapHas(runs[r].typeErrors, A)
    /\ ~MapHas(runs[r].typeErrors, B)
    /\ Slots(FileAt(<<runs[r].tests, B>>)) = {}

----------------------------------------------------------------------------
(* C2 *)

TaskUids(ref) == {TaskAt(FileAt(ref), s).diag : s \in Slots(FileAt(ref))}
SourceUids(cache) == {cache.sourceErrors[i].uid : i \in 1..Len(cache.sourceErrors)}

\* C2: in the snapshot prepareResults returns, a diagnostic of a requested file
\* is a synthetic task of that file's record and no source error; a diagnostic
\* of any other file is one source error and no task of any record; and no
\* record of `files` is for a file that was not requested.
C2_ClassifiedOneWay ==
  \A r \in 1..Len(runs) : Returned(r) =>
    LET cache == snaps[runs[r].snap]
        te == runs[r].typeErrors
    IN /\ \A i \in 1..Len(te) : \A e \in Range(te[i].value) :
            IF te[i].key \in Range(files)
            THEN /\ e.error.uid \in TaskUids(<<runs[r].tests, te[i].key>>)
                 /\ e.error.uid \notin SourceUids(cache)
            ELSE /\ Cardinality({k \in 1..Len(cache.sourceErrors) :
                                   cache.sourceErrors[k] = e.error}) = 1
                 /\ \A ref \in FileRefs : e.error.uid \notin TaskUids(ref)
       /\ \A i \in 1..Len(cache.files) : cache.files[i][2] \in Range(files)
       /\ SourceUids(cache) \subseteq {e.error.uid : e \in EntriesOf(te)}

\* a returned snapshot with a task for a requested file and a source error
C2_Witness ==
  \E r \in 1..Len(runs) :
    /\ Returned(r)
    /\ snaps[runs[r].snap].sourceErrors # <<>>
    /\ TaskUids(<<runs[r].tests, A>>) # {}

----------------------------------------------------------------------------
(* C3 *)

\* C3: when prepareResults has returned, every diagnostic of a requested file
\* has exactly one synthetic task, in the record of that file and under one
\* owner, and the tasks of an owner stand in the order the diagnostics were
\* emitted.
C3_OneTaskPerDiagnostic ==
  \A r \in 1..Len(runs) : Returned(r) =>
    LET te == runs[r].typeErrors
        uids == {e.error.uid : e \in EntriesOf(te)}
    IN /\ \A i \in 1..Len(te) : te[i].key \in Range(files) =>
            \A e \in Range(te[i].value) :
              /\ Cardinality({s \in Slots(FileAt(<<runs[r].tests, te[i].key>>)) :
                   TaskAt(FileAt(<<runs[r].tests, te[i].key>>), s).diag = e.error.uid}) = 1
              /\ \A ref \in FileRefs \ {<<runs[r].tests, te[i].key>>} :
                   e.error.uid \notin TaskUids(ref)
       /\ \A ref \in FileRefs : \A n \in Nodes :
            \A j1, j2 \in 1..Len(FileAt(ref).tasks[n]) :
              (j1 < j2 /\ FileAt(ref).tasks[n][j1].diag \in uids
                       /\ FileAt(ref).tasks[n][j2].diag \in uids)
                => FileAt(ref).tasks[n][j1].diag < FileAt(ref).tasks[n][j2].diag

\* a returned run left two tasks under one owner and a third under another
C3_Witness ==
  \E r \in 1..Len(runs) :
    /\ Returned(r)
    /\ LET fi == FileAt(<<runs[r].tests, A>>)
           uids == {e.error.uid : e \in EntriesOf(runs[r].typeErrors)}
       IN /\ Cardinality(Slots(fi)) = 3
          /\ \A s \in Slots(fi) : TaskAt(fi, s).diag \in uids
          /\ \E n, m \in Nodes : n # m /\ Len(fi.tasks[n]) = 2 /\ Len(fi.tasks[m]) = 1

----------------------------------------------------------------------------
(* C4 *)

\* the offset of a position in the text, when the text has that position
HasOffset(text, pos) ==
  /\ pos.line \in 1..Len(text)
  /\ pos.column \in 1..text[pos.line]
OffsetOf(text, pos) == SumTo(text, pos.line - 1) + pos.column - 1

Containing(defs, off) == {i \in 1..Len(defs) : defs[i].start <= off /\ off <= defs[i].end}

\* the owners the reference allows: the file when the position has no offset
\* or no span contains it, else the tasks of the containing spans that start
\* last
RefOwners(defs, text, pos) ==
  IF ~HasOffset(text, pos) THEN {0}
  ELSE LET c == Containing(defs, OffsetOf(text, pos))
       IN IF c = {} THEN {0}
          ELSE {defs[i].task : i \in {i \in c : \A j \in c : defs[j].start <= defs[i].start}}

\* the position the locator is given for a task's diagnostic
LocatedPos(fi, task) == translatePosition(fi.map, EntryByUid(task.diag).originalError)

\* C4: every synthetic task hangs under the owner the reference names for the
\* position of its diagnostic: the file when the index map has no offset for
\* the position (a diagnostic without line and column among them) or when no
\* span contains the offset, else the task of a containing span with the
\* greatest start.
C4_LocatedAsReference ==
  \A ref \in FileRefs : \A s \in Slots(FileAt(ref)) :
    s[1] \in RefOwners(FileAt(ref).definitions, FileAt(ref).parsed,
                       LocatedPos(FileAt(ref), TaskAt(FileAt(ref), s)))

\* the build is over and a task sits under suite 1, whose span and the span
\* of suite 2 both contain its offset and start at different offsets
C4_Witness ==
  \E ref \in FileRefs : \E s \in Slots(FileAt(ref)) :
    LET fi == FileAt(ref)
        pos == LocatedPos(fi, TaskAt(fi, s))
    IN /\ HasOffset(fi.parsed, pos)
       /\ Cardinality(Containing(fi.definitions, OffsetOf(fi.parsed, pos))) = 2
       /\ fi.definitions[1].start # fi.definitions[2].start
       /\ s[1] = 1
       /\ cur.kind = "publish"

----------------------------------------------------------------------------
(* C5 *)

TaskAsItsOwnerRuns(fi, slot) ==
  LET t == TaskAt(fi, slot)
      ownerMode == fi.mode[slot[1]]
  IN IF ownerMode \in {"run", "only"}
     THEN /\ t.state = "fail"
          /\ t.error = <<EntryByUid(t.diag).error>>
     ELSE /\ t.mode = ownerMode
          /\ t.state = ownerMode
          /\ t.error = <<>>

\* the step of errors.forEach that is about to run gives a task to an owner
\* whose mode is not a running one
AttachesToIdleOwner ==
  /\ cur.kind = "errors"
  /\ \E n \in Nodes :
       /\ store[cur.gen].data[cur.path].mode[n] \notin {"run", "only"}
       /\ Len(store'[cur.gen].data[cur.path].tasks[n]) >
            Len(store[cur.gen].data[cur.path].tasks[n])

\* C5: a synthetic task under an owner in mode run or only is failed and
\* carries the error of its diagnostic; under an owner in any other mode it has
\* that mode as its mode and as its state and carries no error, and attaching
\* it changes the result of no node of the file.
C5_TaskFollowsOwnerMode ==
  /\ [](\A ref \in FileRefs : \A s \in Slots(FileAt(ref)) :
          TaskAsItsOwnerRuns(FileAt(ref), s))
  /\ [][AttachesToIdleOwner =>
          store'[cur.gen].data[cur.path].state = store[cur.gen].data[cur.path].state]_vars

\* one file holds a failed task with its error under a running suite and an
\* error-free skipped task under a skipped suite whose parent is running
C5_Witness ==
  \E ref \in FileRefs :
    LET fi == FileAt(ref)
    IN /\ fi.mode[2] = "skip" /\ fi.suite[2] = 1 /\ fi.mode[1] = "run"
       /\ Len(fi.tasks[1]) = 1 /\ fi.tasks[1][1].state = "fail"
       /\ fi.tasks[1][1].error # <<>>
       /\ Len(fi.tasks[2]) = 1 /\ fi.tasks[2][1].state = "skip"
       /\ fi.tasks[2][1].diag > fi.tasks[1][1].diag
       /\ fi.state[1] = "fail"

----------------------------------------------------------------------------
(* C6 *)

FailedSlots(fi) == {s \in Slots(fi) : TaskAt(fi, s).state = "fail"}

\* C6, as stated: every strict ancestor of a failed synthetic task (its owner
\* and the suites above it, up to the file) has the result state fail,
\* whatever the modes of the ancestors.
C6_Original ==
  \A ref \in FileRefs : \A s \in FailedSlots(FileAt(ref)) :
    \A a \in {s[1]} \cup Ancestors(FileAt(ref), s[1]) :
      FileAt(ref).state[a] = "fail"

\* C6, amended: every strict ancestor of a failed synthetic task has been given
\* a result: fail when the ancestor's own mode is run or only, and the
\* ancestor's own mode (skip, todo) otherwise.
C6_AncestorsMarkedByMode ==
  \A ref \in FileRefs : \A s \in FailedSlots(FileAt(ref)) :
    \A a \in {s[1]} \cup Ancestors(FileAt(ref), s[1]) :
      FileAt(ref).state[a] =
        (IF FileAt(ref).mode[a] \in {"run", "only"} THEN "fail" ELSE FileAt(ref).mode[a])

\* a task failed under suite 2 of the chain file - suite 1 - suite 2, where
\* suite 1 is skipped and the file runs
C6_Witness ==
  \E ref \in FileRefs :
    LET fi == FileAt(ref)
    IN /\ fi.suite[2] = 1
       /\ FailedSlots(fi) # {} /\ \A s \in FailedSlots(fi) : s[1] = 2
       /\ fi.mode[1] = "skip" /\ fi.state[1] = "skip"
       /\ fi.mode[0] = "run" /\ fi.state[0] = "fail"

----------------------------------------------------------------------------
(* C7 *)

\* C7: in watch mode the rerun callback has been invoked once for every pass
\* of the checker's output that carries the rerun notice: whenever the data
\* handler is not running, the invocations so far are as many as the passes
\* so far (the stretches of output between two pass-complete notices) that
\* hold a rerun notice.
C7_OncePerPass ==
  (watch /\ Idle) => hist.rerunCalls = hist.markedPasses

----------------------------------------------------------------------------
(* C8 *)

\* C8: the step in which the rerun branch fires leaves getResult() with empty
\* files and sourceErrors, this._tests null, getTestFiles() empty and the
\* flag set; and this._tests stays null until a collectTests call settles.
C8_RerunClears ==
  /\ [][(cur.kind = "rerunCheck" /\ rerunFires) =>
          /\ getResult'.files = <<>>
          /\ getResult'.sourceErrors = <<>>
          /\ _tests' = Null
          /\ getTestFiles' = <<>>
          /\ rerunTriggered']_vars
  /\ [][(_tests = Null /\ _tests' # Null) =>
          (Len(store') = Len(store) + 1 /\ _tests' = Len(store'))]_vars

\* the rerun branch has just fired on a session whose published snapshot had
\* files and whose collected tests had files
C8_Witness ==
  /\ cur.kind = "doneCheck"
  /\ rerunTriggered
  /\ _tests = Null
  /\ getTestFiles = <<>>
  /\ getResult = EmptyCache
  /\ \E i \in 1..Len(hist.parseEnd) :
       /\ hist.parseEnd[i].snap = _result
       /\ store[runs[hist.parseEnd[i].run].tests].data # <<>>

----------------------------------------------------------------------------
(* C9 *)

ParseEndCalls(r) == {i \in 1..Len(hist.parseEnd) : hist.parseEnd[i].run = r}

----------------------------------------------------------------------------
(* C10 *)

OneShotResolvesAfterPublish ==
  (~watch /\ spc = "resolved") =>
    /\ Len(runs) = 1
    /\ runs[1].pc = "published"
    /\ _result = runs[1].snap
    /\ Len(hist.parseEnd) = 1

\* C10, as stated: start() resolves in one-shot mode only once the one
\* snapshot is published, and in watch mode it does not resolve.
C10_Original ==
  /\ OneShotResolvesAfterPublish
  /\ watch => spc # "resolved"

\* C10, amended: start() resolves in one-shot mode only once the one snapshot
\* is published and reported; in watch mode it resolves as soon as the data
\* handler is installed, before any pass, and so whenever the handler is
\* installed start() has resolved.
C10_StartResolves ==
  /\ OneShotResolvesAfterPublish
  /\ watch => (proc.listening <=> spc = "resolved")

\* in watch mode start() has resolved and no output has arrived yet
C10_Witness ==
  /\ watch
  /\ spc = "resolved"
  /\ hist.chunks = 0
  /\ runs = <<>>
  /\ _result = 1

----------------------------------------------------------------------------
(* C11 *)

\* the ErrorsCache objects a reader can hold: the one getResult() returns and
\* those that were passed to the parse-end callback
PublishedSnaps == {_result} \cup {hist.parseEnd[i].snap : i \in 1..Len(hist.parseEnd)}

\* C11: no step changes the files or the sourceErrors of an ErrorsCache object
\* that has been published (returned by getResult() or passed to the parse-end
\* callback); a later pass publishes another object.
C11_PublishedNeverChanged ==
  [][\A k \in PublishedSnaps : snaps'[k] = snaps[k]]_vars

----------------------------------------------------------------------------
(* C12 *)

\* C12: the parse-start callback has been invoked and its promise has settled
\* before any work of a pass begins: the checker process is not running while
\* the callback is still pending, and every pass whose pipeline has started
\* had its own invocation of the callback.
C12_ParseStartBeforeWork ==
  /\ proc.spawned => (hist.parseStart >= 1 /\ spc # "parseStart")
  /\ Len(runs) <= hist.parseStart

----------------------------------------------------------------------------
(* C13 *)

\* the controller advances: the rerun branch or the pass-complete branch of
\* the data handler fires, or start() resolves
Advances ==
  \/ cur.kind = "rerunCheck" /\ rerunFires
  \/ cur.kind = "doneCheck" /\ doneFires
  \/ spc # "resolved" /\ spc' = "resolved"

\* C13: while the promise returned by the parse-end callback of a published
\* pass is pending, the controller does not advance: a step that leaves the
\* promise pending fires neither branch of the data handler and does not
\* resolve start().
C13_AwaitsParseEnd ==
  [][(hist.endPending # {} /\ hist.endPending' = hist.endPending) => ~Advances]_vars

----------------------------------------------------------------------------
(* C14 *)

\* the prepareResults calls that have neither published their snapshot nor
\* thrown
InFlight == {r \in 1..Len(runs) : runs[r].pc \notin {"published", "threw"}}

\* C14: in watch mode at most one prepareResults call is in flight at any
\* time.
C14_OneRunInFlight ==
  watch => Cardinality(InFlight) <= 1

----------------------------------------------------------------------------
(* C15 *)

\* C15: a prepareResults call made after the rerun branch has fired builds on
\* test definitions whose collection started after the last firing of the
\* rerun branch that preceded the call, never on records collected before it.
C15_BuildsOnFreshTests ==
  \A r \in 1..Len(runs) :
    (runs[r].rerun >= 1 /\ runs[r].tests # Null) =>
      store[runs[r].tests].epoch >= runs[r].rerun

----------------------------------------------------------------------------
(* C16 *)

PublishedRuns == {r \in 1..Len(runs) : runs[r].pc = "published"}

\* every prepareResults call has settled and getResult() is the snapshot of
\* the latest pass that published one
LatestPassIsCurrent ==
  (watch /\ Idle /\ InFlight = {} /\ PublishedRuns # {}) =>
    _result = runs[CHOOSE r \in PublishedRuns : \A q \in PublishedRuns : q <= r].snap

\* the run that has just assigned its snapshot to _result started after the
\* last firing of the rerun branch
NoPublishAcrossRerun ==
  (watch /\ cur.kind = "parseEnd") => hist.rerunCalls = runs[cur.run].rerun

\* C16: snapshots are published in pass order: when every prepareResults call
\* has settled, getResult() returns the snapshot of the latest pass, and a run
\* does not publish its snapshot once the rerun branch has fired after the run
\* started.
C16_PublishedInPassOrder ==
  LatestPassIsCurrent /\ NoPublishAcrossRerun

----------------------------------------------------------------------------
(* C17 *)

\* the position the checker reported for a task's diagnostic
ReportedPos(task) ==
  Pos(EntryByUid(task.diag).originalError.line, EntryByUid(task.diag).originalError.column)

\* the file has a source map and the map has nothing for the task's position
LookupFindsNothing(fi, task) ==
  /\ fi.map # NoMap
  /\ ReportedPos(task) \notin DOMAIN fi.map[1]

\* C17: when the file has a source map and the map has nothing for the
\* position of a diagnostic, the task hangs under the owner the reference
\* names for the reported, untranslated position, as it would without a map.
C17_FallsBackToReportedPosition ==
  \A ref \in FileRefs : \A s \in Slots(FileAt(ref)) :
    LookupFindsNothing(FileAt(ref), TaskAt(FileAt(ref), s)) =>
      s[1] \in RefOwners(FileAt(ref).definitions, FileAt(ref).parsed,
                         ReportedPos(TaskAt(FileAt(ref), s)))

----------------------------------------------------------------------------
(* C18 *)

\* C18: the name of a synthetic task carries its 1-based ordinal among the
\* tasks the run attached to the same owner: the k-th task of an owner is
\* labelled k.
C18_NamedByOrdinalInOwner ==
  \A ref \in FileRefs : \A s \in Slots(FileAt(ref)) :
    TaskAt(FileAt(ref), s).name = s[2]

----------------------------------------------------------------------------
(* C19 *)

\* C19: no step of prepareResults changes the span list of a collected file,
\* in content or in order.
C19_DefinitionsReadOnly ==
  [][\A ref \in FileRefs :
       store'[ref[1]].data[ref[2]].definitions = FileAt(ref).definitions]_vars

----------------------------------------------------------------------------
(* C20 *)

\* the suite and every suite above it, up to the file, are failed
ChainFailed(fi, n) == \A a \in {n} \cup Ancestors(fi, n) : fi.state[a] = "fail"

\* the step of errors.forEach that is about to run attaches its task to n
AttachesTo(n) ==
  /\ cur.kind = "errors"
  /\ Len(store'[cur.gen].data[cur.path].tasks[n]) >
       Len(store[cur.gen].data[cur.path].tasks[n])

\* C20: markFailed is idempotent: on every file record and every suite of it,
\* a second call changes no result state and no task collection, and a node
\* that is failed stays failed; and a step that calls markFailed on a suite
\* whose chain is already failed changes no state and adds nothing but its own
\* task to the owner.
C20_MarkFailedIdempotent ==
  /\ [](\A ref \in FileRefs : \A n \in Nodes :
          LET once == markFailed(FileAt(ref), n)
              twice == markFailed(once, n)
          IN /\ twice = once
             /\ once.tasks = FileAt(ref).tasks
             /\ \A a \in Nodes : FileAt(ref).state[a] = "fail" => once.state[a] = "fail")
  /\ [][\A n \in Nodes :
          (AttachesTo(n) /\ ChainFailed(store[cur.gen].data[cur.path], n)) =>
            /\ store'[cur.gen].data[cur.path].state = store[cur.gen].data[cur.path].state
            /\ \A m \in Nodes \ {n} :
                 store'[cur.gen].data[cur.path].tasks[m] = store[cur.gen].data[cur.path].tasks[m]
            /\ Len(store'[cur.gen].data[cur.path].tasks[n]) =
                 Len(store[cur.gen].data[cur.path].tasks[n]) + 1]_vars

\* markFailed has run twice on suite 2 of the chain file - suite 1 - suite 2:
\* the suite holds two failed tasks and the whole chain is failed
C20_Witness ==
  \E ref \in FileRefs :
    LET fi == FileAt(ref)
    IN /\ fi.suite[2] = 1
       /\ Len(fi.tasks[2]) = 2
       /\ fi.tasks[2][1].state = "fail" /\ fi.tasks[2][2].state = "fail"
       /\ ChainFailed(fi, 2)
       /\ fi.tasks[0] = <<>> /\ fi.tasks[1] = <<>>

====
